---- MODULE Spec2Model ----
(***************************************************************************)
(* Model of ej2_despliegue_rh.py: the DespliegueRH deployment script.      *)
(*                                                                         *)
(* One run of main() is a straight line: parse_args, the constructor       *)
(* (_cargar_configuracion, _validar_variables_entorno, the four boto3      *)
(* clients) and desplegar(), which calls crear_security_group,             *)
(* crear_bucket_s3_backup, crear_instancia_ec2 and crear_base_datos_rds.   *)
(* Every provider call is one action; its outcome (success or an           *)
(* exception) is chosen by the provider.  The provider's resources outlive *)
(* the process, so the model runs the script several times against the     *)
(* same account.                                                           *)
(***************************************************************************)
EXTENDS Integers, Sequences, FiniteSets, TLC

\* Number of times the script is run against the same account.
MaxRuns == 2

VARIABLES
    pc,                 \* position of the running process
    run,                \* number of the current run
    args_config,        \* args.config: "None" or a path
    archivo,            \* what the file system holds at that path
    environ,            \* os.environ, the three required variables
    reloj,              \* int(time.time())
    config,             \* self.config
    faltantes,          \* the list _validar_variables_entorno reports
    clientes,           \* the boto3 clients built by __init__
    sg_id,              \* desplegar's local sg_id
    recursos_creados,   \* desplegar's local recursos_creados
    impresos,           \* the entries of recursos_creados that were printed
    llamadas,           \* the provider calls this run issued, in order
    stdout,             \* what the run printed on the standard output
    stderr,             \* what the run printed on the standard error
    exit_code,          \* the process's exit status, "none" while it runs
    excepcion,          \* the exception that ended the run, if any
    pc_final,           \* the position at which the process ended
    respuesta,          \* the provider's answer to the last call of the run
    grupos,             \* provider: security groups by name
    buckets,            \* provider: buckets by name
    instancias,         \* provider: instances by id
    dbs,                \* provider: database instances
    sig_id,             \* provider: next fresh identifier
    sg_obtenidos,       \* history: identifiers crear_security_group returned
    sg_creaciones       \* history: successful create_security_group calls

vars == <<pc, run, args_config, archivo, environ, reloj, config, faltantes,
          clientes, sg_id, recursos_creados, impresos, llamadas, stdout,
          stderr, exit_code, excepcion, pc_final, respuesta, grupos,
          buckets, instancias, dbs, sig_id, sg_obtenidos, sg_creaciones>>

proceso == <<config, faltantes, clientes, sg_id, recursos_creados, impresos,
             llamadas, stdout, stderr, exit_code, excepcion, pc_final,
             respuesta>>

entradas == <<run, args_config, archivo, environ, reloj>>

proveedor == <<grupos, buckets, instancias, dbs, sig_id>>

historia == <<sg_obtenidos, sg_creaciones>>

----------------------------------------------------------------------------
\* Functions as Python dicts.

Vacio == [k \in {} |-> 0]

Put(d, k, v) == [x \in (DOMAIN d) \cup {k} |-> IF x = k THEN v ELSE d[x]]

\* Mutant of Update: a key the defaults already hold keeps its default.
UpdateSinReemplazar(d, other) ==
    [x \in (DOMAIN d) \cup (DOMAIN other) |->
        IF x \in DOMAIN d THEN d[x] ELSE other[x]]

\* dict.update: every key of other replaces or extends d.
Update(d, other) ==
    [x \in (DOMAIN d) \cup (DOMAIN other) |->
        IF x \in DOMAIN other THEN other[x] ELSE d[x]]

----------------------------------------------------------------------------
\* _cargar_configuracion

config_default ==
    [region |-> "us-east-1",
     ami_id |-> "ami-06b21ccaeff8cd686",
     instance_type |-> "t2.micro",
     db_instance_class |-> "db.t3.micro",
     db_allocated_storage |-> 20,
     app_name |-> "app-rh-devops",
     environment |-> "production"]

ClavesValidas == DOMAIN config_default

\* A value a configuration file may give to each key, other than the default,
\* and to a key the script does not know.
ValorArchivo ==
    [region |-> "eu-west-1",
     ami_id |-> "ami-0c02fb55956c7d316",
     instance_type |-> "t3.small",
     db_instance_class |-> "db.t3.small",
     db_allocated_storage |-> 50,
     app_name |-> "otra-app",
     environment |-> "staging",
     owner |-> "rrhh"]

Registro(claves) == [k \in claves |-> ValorArchivo[k]]

Ausente == [tipo |-> "ausente"]
Invalido == [tipo |-> "invalido"]
NoRegistro == [tipo |-> "no_registro"]
ArchivoRegistro(claves) == [tipo |-> "registro", datos |-> Registro(claves)]

\* config_file and os.path.exists(config_file)
ArchivoLeido(path, arch) == path # "None" /\ arch.tipo # "ausente"

\* What _cargar_configuracion does with the file: return a configuration, or
\* leave through sys.exit(1) on a JSONDecodeError, or let the TypeError of
\* dict.update on a value that is no mapping escape.
ResultadoCarga(path, arch) ==
    IF ~ArchivoLeido(path, arch) THEN "config"
    ELSE IF arch.tipo = "invalido" THEN "sys_exit"
    ELSE IF arch.tipo = "no_registro" THEN "TypeError"
    ELSE "config"

cargar_configuracion(path, arch) ==
    IF ArchivoLeido(path, arch) /\ arch.tipo = "registro"
    THEN Update(config_default, arch.datos)
    ELSE config_default

----------------------------------------------------------------------------
\* _validar_variables_entorno

variables_requeridas ==
    <<"RDS_ADMIN_PASSWORD", "AWS_ACCESS_KEY_ID", "AWS_SECRET_ACCESS_KEY">>

Requeridas == {variables_requeridas[i] : i \in 1..Len(variables_requeridas)}

\* not os.environ.get(var): the variable is unset or set to the empty string.
Falta(env, var) == env[var] \in {"unset", "vacia"}

\* Mutant of Faltantes: the loop stops at the first missing variable.
FaltantesSoloPrimera(env) ==
    LET todas == SelectSeq(variables_requeridas, LAMBDA v : Falta(env, v))
    IN  IF todas = <<>> THEN <<>> ELSE <<todas[1]>>

\* The loop over variables_requeridas, appending each missing one.
Faltantes(env) ==
    SelectSeq(variables_requeridas, LAMBDA v : Falta(env, v))

Entornos == [Requeridas -> {"unset", "vacia", "definida"}]

----------------------------------------------------------------------------
\* Exceptions and who catches them.

Ok == [clase |-> "ok", code |-> ""]
ClientError(code) == [clase |-> "ClientError", code |-> code]
\* A botocore exception that is no ClientError (a connection error, a
\* WaiterError): it derives from Exception.
OtraExcepcion == [clase |-> "Exception", code |-> "BotoCoreError"]
TypeError == [clase |-> "Exception", code |-> "TypeError"]
KeyboardInterrupt == [clase |-> "KeyboardInterrupt", code |-> ""]

\* Faults any provider call may answer with, besides its own conflict code.
Fallos == {ClientError("UnauthorizedOperation"), OtraExcepcion}

\* isinstance(e, Exception): KeyboardInterrupt derives from BaseException.
EsException(e) == e.clase \in {"ClientError", "Exception"}

\* Mutant of DesplegarCaptura: a bare except, which also catches
\* KeyboardInterrupt.
DesplegarCapturaTodo(e) == TRUE

\* Mutant of DesplegarCaptura: except ClientError.
DesplegarCapturaSoloClientError(e) == e.clase = "ClientError"

\* desplegar's handler: except Exception.
DesplegarCaptura(e) == EsException(e)

\* main's handlers: except KeyboardInterrupt, then except Exception.
MainCaptura(e) ==
    IF e.clase = "KeyboardInterrupt" THEN "cancelado"
    ELSE IF EsException(e) THEN "error_fatal"
    ELSE "no_capturada"

\* Where the process is: before main's try block, in the constructor, in
\* desplegar.
PcsInit == {"cargar_config", "validar_env", "clientes"}
PcsPaso1 == {"sg_create", "sg_authorize", "sg_describe"}
PcsPaso2 == {"s3_create", "s3_encryption", "s3_versioning",
             "s3_public_access", "s3_tagging"}
PcsPaso3 == {"ec2_run", "ec2_wait"}
PcsPaso4 == {"rds_create"}
PcsDesplegar == PcsPaso1 \cup PcsPaso2 \cup PcsPaso3 \cup PcsPaso4 \cup {"resumen"}

Lugar(p) ==
    IF p \in PcsDesplegar THEN "desplegar"
    ELSE IF p \in PcsInit THEN "init"
    ELSE "fuera_del_try"

PasoDe(p) ==
    IF p \in PcsPaso1 THEN 1
    ELSE IF p \in PcsPaso2 THEN 2
    ELSE IF p \in PcsPaso3 THEN 3
    ELSE IF p \in PcsPaso4 THEN 4
    ELSE 0

\* What an exception raised at `lugar` makes the process print, and the exit
\* status it ends with.  An exception nobody catches ends the interpreter
\* with a traceback; for KeyboardInterrupt the status is 1 or death by SIGINT,
\* depending on the interpreter's version.
Salida(lugar, e) ==
    IF lugar = "desplegar" /\ DesplegarCaptura(e)
    THEN [err |-> {"error_despliegue"}, out |-> {"aviso_recursos"},
          exit |-> {"1"}]
    ELSE IF lugar \in {"desplegar", "init"} /\ MainCaptura(e) # "no_capturada"
    THEN [err |-> {MainCaptura(e)}, out |-> {}, exit |-> {"1"}]
    ELSE [err |-> {"traceback"}, out |-> {}, exit |-> {"1", "SIGINT"}]

\* The process ends with exception e, raised at position p; err_paso is what
\* the step's own handler printed before re-raising.
Terminar(e, p, err_paso) ==
    LET s == Salida(Lugar(p), e) IN
    /\ stderr' = stderr \cup err_paso \cup s.err
    /\ stdout' = stdout \cup s.out
    /\ exit_code' \in s.exit
    /\ excepcion' = e
    /\ pc_final' = p
    /\ pc' = "exit"

\* sys.exit(1) called outside desplegar: SystemExit passes main's handlers.
SysExit(err) ==
    /\ stderr' = stderr \cup err
    /\ exit_code' = "1"
    /\ pc_final' = pc
    /\ pc' = "exit"
    /\ UNCHANGED <<stdout, excepcion>>

Llamar(op, loc) ==
    llamadas' = Append(llamadas, [op |-> op, paso |-> PasoDe(pc), loc |-> loc])

----------------------------------------------------------------------------
\* The inputs of a run.

SinRegistro ==
    {<<"None", Ausente>>, <<"config.json", Ausente>>,
     <<"config.json", Invalido>>, <<"config.json", NoRegistro>>}

\* The first run is given every record over the keys of ValorArchivo; a later
\* run one of these, which cover what the steps read (region, app_name).
ClavesArchivo == {{}, {"region"}, {"app_name"}, {"environment", "owner"}}

EntradasArchivo ==
    SinRegistro
    \cup {<<"config.json", ArchivoRegistro(c)>> : c \in ClavesArchivo}

EntradasPrimera ==
    SinRegistro
    \cup {<<"config.json", ArchivoRegistro(c)>> :
              c \in SUBSET (DOMAIN ValorArchivo)}

\* Before the process starts nothing of its inputs has been read.
SinLeer ==
    /\ args_config = "None"
    /\ archivo = Ausente
    /\ environ = [v \in Requeridas |-> "unset"]

ProcesoInicial ==
    /\ pc = "parse_args"
    /\ config = Vacio
    /\ faltantes = <<>>
    /\ clientes = FALSE
    /\ sg_id = ""
    /\ recursos_creados = Vacio
    /\ impresos = Vacio
    /\ llamadas = <<>>
    /\ stdout = {}
    /\ stderr = {}
    /\ exit_code = "none"
    /\ excepcion = Ok
    /\ pc_final = ""
    /\ respuesta = Ok

Init ==
    /\ ProcesoInicial
    /\ run = 1
    /\ SinLeer
    /\ reloj = 1
    /\ grupos = Vacio
    /\ buckets = Vacio
    /\ instancias = Vacio
    /\ dbs = {}
    /\ sig_id = 1
    /\ sg_obtenidos = Vacio
    /\ sg_creaciones = Vacio

\* The operator runs the script again; the provider's resources remain.
NuevaEjecucion ==
    /\ pc = "exit"
    /\ run < MaxRuns
    /\ run' = run + 1
    /\ pc' = "parse_args"
    /\ config' = Vacio
    /\ faltantes' = <<>>
    /\ clientes' = FALSE
    /\ sg_id' = ""
    /\ recursos_creados' = Vacio
    /\ impresos' = Vacio
    /\ llamadas' = <<>>
    /\ stdout' = {}
    /\ stderr' = {}
    /\ exit_code' = "none"
    /\ excepcion' = Ok
    /\ pc_final' = ""
    /\ respuesta' = Ok
    /\ args_config' = "None"
    /\ archivo' = Ausente
    /\ environ' = [v \in Requeridas |-> "unset"]
    /\ reloj' \in {reloj, reloj + 1}
    /\ UNCHANGED <<proveedor, historia>>

----------------------------------------------------------------------------
\* main() up to desplegar()

\* The process starts with the arguments, the file and the environment the
\* operator has set up, and parses its arguments.
ParseArgs ==
    /\ pc = "parse_args"
    /\ \E e \in (IF run = 1 THEN EntradasPrimera ELSE EntradasArchivo) :
          args_config' = e[1] /\ archivo' = e[2]
    /\ environ' \in Entornos
    /\ pc' = "cargar_config"
    /\ UNCHANGED <<run, reloj, config, faltantes, clientes, sg_id,
                   recursos_creados, impresos, llamadas, stdout, stderr,
                   exit_code, excepcion, pc_final, respuesta, proveedor,
                   historia>>

CargarConfiguracion ==
    /\ pc = "cargar_config"
    /\ LET r == ResultadoCarga(args_config, archivo) IN
       \/ /\ r = "config"
          /\ config' = cargar_configuracion(args_config, archivo)
          /\ pc' = "validar_env"
          /\ UNCHANGED <<stdout, stderr, exit_code, excepcion, pc_final>>
       \/ /\ r = "sys_exit"
          /\ SysExit({"config_invalido"})
          /\ UNCHANGED config
       \/ /\ r = "TypeError"
          /\ Terminar(TypeError, pc, {})
          /\ UNCHANGED config
    /\ UNCHANGED <<entradas, faltantes, clientes, sg_id, recursos_creados,
                   impresos, llamadas, respuesta, proveedor, historia>>

ValidarVariablesEntorno ==
    /\ pc = "validar_env"
    /\ faltantes' = Faltantes(environ)
    /\ \/ /\ faltantes' = <<>>
          /\ pc' = "clientes"
          /\ UNCHANGED <<stdout, stderr, exit_code, excepcion, pc_final>>
       \/ /\ faltantes' # <<>>
          /\ SysExit({"faltan_variables", "ejemplo"})
    /\ UNCHANGED <<entradas, config, clientes, sg_id, recursos_creados,
                   impresos, llamadas, respuesta, proveedor, historia>>

\* The four boto3.client calls, then desplegar's banner.
CrearClientes ==
    /\ pc = "clientes"
    /\ clientes' = TRUE
    /\ stdout' = stdout \cup {"inicio"}
    /\ pc' = "sg_create"
    /\ UNCHANGED <<entradas, config, faltantes, sg_id, recursos_creados,
                   impresos, llamadas, stderr, exit_code, excepcion,
                   pc_final, respuesta, proveedor, historia>>

----------------------------------------------------------------------------
\* desplegar(): what its steps share

\* Mutant of ManejadorSinLlamadas: the handler deletes the group and the
\* bucket that recursos_creados lists.
ManejadorConRollback ==
    /\ grupos' =
          [n \in {m \in DOMAIN grupos :
                     \/ "security_group" \notin DOMAIN recursos_creados
                     \/ grupos[m].id # recursos_creados["security_group"]}
             |-> grupos[n]]
    /\ buckets' =
          [b \in {m \in DOMAIN buckets :
                     \/ "s3_bucket" \notin DOMAIN recursos_creados
                     \/ m # recursos_creados["s3_bucket"]}
             |-> buckets[b]]
    /\ UNCHANGED <<instancias, dbs, sig_id>>

\* desplegar's except block prints and exits: it issues no provider call.
ManejadorSinLlamadas == UNCHANGED <<grupos, buckets, instancias, dbs, sig_id>>

\* A step's own handler, except ClientError: print the step's error and
\* re-raise; any other exception passes it untouched.
ManejoPaso(e) == IF e.clase = "ClientError" THEN "relanzar" ELSE "propagar"

ErrPaso(manejo, etiqueta) == IF manejo = "relanzar" THEN {etiqueta} ELSE {}

\* Mutant of FallaPaso: the handler of crear_bucket_s3_backup prints the error
\* and does not re-raise, so the function returns bucket_name.
FallaPasoSinRaise(e, manejo, etiqueta) ==
    IF manejo = "relanzar" /\ pc \in PcsPaso2
    THEN /\ stderr' = stderr \cup {etiqueta}
         /\ respuesta' = e
         /\ recursos_creados' =
               Put(recursos_creados, "s3_bucket",
                   config.app_name \o "-backups-" \o ToString(reloj))
         /\ pc' = "ec2_run"
         /\ UNCHANGED <<entradas, config, faltantes, clientes, sg_id,
                        impresos, stdout, exit_code, excepcion, pc_final,
                        proveedor, historia>>
    ELSE /\ Terminar(e, pc, ErrPaso(manejo, etiqueta))
         /\ respuesta' = e
         /\ UNCHANGED <<entradas, config, faltantes, clientes, sg_id,
                        recursos_creados, impresos, proveedor, historia>>

\* An exception leaves the step at pc: the step's handler, then desplegar's.
FallaPaso(e, manejo, etiqueta) ==
    /\ Terminar(e, pc, ErrPaso(manejo, etiqueta))
    /\ respuesta' = e
    /\ ManejadorSinLlamadas
    /\ UNCHANGED <<entradas, config, faltantes, clientes, sg_id,
                   recursos_creados, impresos, historia>>

----------------------------------------------------------------------------
\* [1/4] crear_security_group

NombreSG(cfg) == cfg.app_name \o "-sg"

ReglasIngreso == {443, 22}

\* Mutant of ManejoSG: the conflict code is not told apart.
ManejoSGSinConflicto(e) ==
    IF e.clase = "ClientError" THEN "relanzar" ELSE "propagar"

\* The except ClientError block of crear_security_group.
ManejoSG(e) ==
    IF e.clase = "ClientError"
    THEN IF e.code = "InvalidGroup.Duplicate" THEN "buscar" ELSE "relanzar"
    ELSE "propagar"

\* The provider refuses a second group of the same name.
RespuestasCrearSG(nombre) ==
    (IF nombre \in DOMAIN grupos
     THEN {ClientError("InvalidGroup.Duplicate")} ELSE {Ok}) \cup Fallos

\* describe_security_groups(GroupNames=[sg_name])['SecurityGroups'][0]['GroupId']
BuscarSG(nombre) == grupos[nombre].id

\* return sg_id, and desplegar's recursos_creados['security_group'] = sg_id
DevolverSG(id) ==
    /\ sg_id' = id
    /\ recursos_creados' = Put(recursos_creados, "security_group", id)
    /\ sg_obtenidos' =
          Put(sg_obtenidos, NombreSG(config),
              (IF NombreSG(config) \in DOMAIN sg_obtenidos
               THEN sg_obtenidos[NombreSG(config)] ELSE {}) \cup {id})
    /\ pc' = "s3_create"

SgCreate ==
    /\ pc = "sg_create"
    /\ Llamar("create_security_group", "")
    /\ \E r \in RespuestasCrearSG(NombreSG(config)) :
          \/ /\ r = Ok
             /\ respuesta' = r
             /\ grupos' = Put(grupos, NombreSG(config),
                              [id |-> "sg-" \o ToString(sig_id), reglas |-> {}])
             /\ sig_id' = sig_id + 1
             /\ sg_id' = "sg-" \o ToString(sig_id)
             /\ sg_creaciones' =
                   Put(sg_creaciones, NombreSG(config),
                       (IF NombreSG(config) \in DOMAIN sg_creaciones
                        THEN sg_creaciones[NombreSG(config)] ELSE 0) + 1)
             /\ stdout' = stdout \cup {"sg_creado"}
             /\ pc' = "sg_authorize"
             /\ UNCHANGED <<entradas, config, faltantes, clientes,
                            recursos_creados, impresos, stderr, exit_code,
                            excepcion, pc_final, buckets, instancias, dbs,
                            sg_obtenidos>>
          \/ /\ r # Ok
             /\ ManejoSG(r) = "buscar"
             /\ respuesta' = r
             /\ pc' = "sg_describe"
             /\ UNCHANGED <<entradas, config, faltantes, clientes, sg_id,
                            recursos_creados, impresos, stdout, stderr,
                            exit_code, excepcion, pc_final, proveedor,
                            historia>>
          \/ /\ r # Ok
             /\ ManejoSG(r) # "buscar"
             /\ FallaPaso(r, ManejoSG(r), "sg_error")

SgAuthorize ==
    /\ pc = "sg_authorize"
    /\ Llamar("authorize_security_group_ingress", "")
    /\ \E r \in {Ok} \cup Fallos :
          \/ /\ r = Ok
             /\ respuesta' = r
             /\ grupos' = [grupos EXCEPT ![NombreSG(config)].reglas =
                                             @ \cup ReglasIngreso]
             /\ stdout' = stdout \cup {"sg_reglas"}
             /\ DevolverSG(sg_id)
             /\ UNCHANGED <<entradas, config, faltantes, clientes, impresos,
                            stderr, exit_code, excepcion, pc_final,
                            buckets, instancias, dbs, sig_id, sg_creaciones>>
          \/ /\ r # Ok
             /\ FallaPaso(r, ManejoSG(r), "sg_error")

\* The lookup runs inside the except block: its own exception is not handled
\* by crear_security_group.
SgDescribe ==
    /\ pc = "sg_describe"
    /\ Llamar("describe_security_groups", "")
    /\ \E r \in {Ok} \cup Fallos :
          \/ /\ r = Ok
             /\ respuesta' = r
             /\ stdout' = stdout \cup {"sg_existe"}
             /\ DevolverSG(BuscarSG(NombreSG(config)))
             /\ UNCHANGED <<entradas, config, faltantes, clientes, impresos,
                            stderr, exit_code, excepcion, pc_final,
                            proveedor, sg_creaciones>>
          \/ /\ r # Ok
             /\ FallaPaso(r, "propagar", "sg_error")

----------------------------------------------------------------------------
\* [2/4] crear_bucket_s3_backup

NombreBucket(cfg, t) == cfg.app_name \o "-backups-" \o ToString(t)

\* Mutant of LocationConstraint: the region is always passed.
LocationConstraintSiempre(cfg) == cfg.region

\* The region test of the create call: us-east-1 takes no LocationConstraint.
LocationConstraint(cfg) ==
    IF cfg.region = "us-east-1" THEN "sin_LocationConstraint" ELSE cfg.region

\* One of the five calls: on success the bucket gains `prop` and the function
\* goes on to `siguiente`; an exception leaves the function.
LlamadaS3(op, loc, prop, siguiente) ==
    /\ Llamar(op, loc)
    /\ \E r \in {Ok} \cup Fallos :
          \/ /\ r = Ok
             /\ respuesta' = r
             /\ buckets' =
                   Put(buckets, NombreBucket(config, reloj),
                       (IF NombreBucket(config, reloj) \in DOMAIN buckets
                        THEN buckets[NombreBucket(config, reloj)] ELSE {})
                       \cup {prop})
             /\ pc' = siguiente
             /\ IF siguiente = "ec2_run"
                THEN /\ stdout' = stdout \cup {"s3_creado"}
                     /\ recursos_creados' =
                           Put(recursos_creados, "s3_bucket",
                               NombreBucket(config, reloj))
                ELSE UNCHANGED <<stdout, recursos_creados>>
             /\ UNCHANGED <<entradas, config, faltantes, clientes, sg_id,
                            impresos, stderr, exit_code, excepcion,
                            pc_final, grupos, instancias, dbs, sig_id,
                            historia>>
          \/ /\ r # Ok
             /\ FallaPaso(r, ManejoPaso(r), "s3_error")

S3Create ==
    /\ pc = "s3_create"
    /\ LlamadaS3("create_bucket", LocationConstraint(config), "creado",
                 "s3_encryption")

S3Encryption ==
    /\ pc = "s3_encryption"
    /\ LlamadaS3("put_bucket_encryption", "", "AES256", "s3_versioning")

S3Versioning ==
    /\ pc = "s3_versioning"
    /\ LlamadaS3("put_bucket_versioning", "", "versionado", "s3_public_access")

S3PublicAccess ==
    /\ pc = "s3_public_access"
    /\ LlamadaS3("put_public_access_block", "", "sin_acceso_publico",
                 "s3_tagging")

S3Tagging ==
    /\ pc = "s3_tagging"
    /\ LlamadaS3("put_bucket_tagging", "", "tags", "ec2_run")

----------------------------------------------------------------------------
\* [3/4] crear_instancia_ec2(sg_id)

Ec2Run ==
    /\ pc = "ec2_run"
    /\ Llamar("run_instances", "")
    /\ \E r \in {Ok} \cup Fallos :
          \/ /\ r = Ok
             /\ respuesta' = r
             /\ instancias' = Put(instancias, "i-" \o ToString(sig_id),
                                  [sg |-> sg_id])
             /\ sig_id' = sig_id + 1
             /\ stdout' = stdout \cup {"ec2_creada"}
             /\ pc' = "ec2_wait"
             /\ UNCHANGED <<entradas, config, faltantes, clientes, sg_id,
                            recursos_creados, impresos, stderr, exit_code,
                            excepcion, pc_final, grupos, buckets, dbs,
                            historia>>
          \/ /\ r # Ok
             /\ FallaPaso(r, ManejoPaso(r), "ec2_error")

\* instance_id = response['Instances'][0]['InstanceId'] of the launch above.
UltimaInstancia == "i-" \o ToString(sig_id - 1)

\* waiter.wait(InstanceIds=[instance_id])
Ec2Wait ==
    /\ pc = "ec2_wait"
    /\ Llamar("wait_instance_running", "")
    /\ \E r \in {Ok} \cup Fallos :
          \/ /\ r = Ok
             /\ respuesta' = r
             /\ stdout' = stdout \cup {"ec2_running"}
             /\ recursos_creados' =
                   Put(recursos_creados, "ec2_instance", UltimaInstancia)
             /\ pc' = "rds_create"
             /\ UNCHANGED <<entradas, config, faltantes, clientes, sg_id,
                            impresos, stderr, exit_code, excepcion,
                            pc_final, proveedor, historia>>
          \/ /\ r # Ok
             /\ FallaPaso(r, ManejoPaso(r), "ec2_error")

----------------------------------------------------------------------------
\* [4/4] crear_base_datos_rds

NombreDB(cfg) == cfg.app_name \o "-db"

\* Mutant of ManejoRDS: the conflict code is not told apart.
ManejoRDSSinConflicto(e) ==
    IF e.clase = "ClientError" THEN "relanzar" ELSE "propagar"

\* The except ClientError block of crear_base_datos_rds.
ManejoRDS(e) ==
    IF e.clase = "ClientError"
    THEN IF e.code = "DBInstanceAlreadyExists" THEN "continuar" ELSE "relanzar"
    ELSE "propagar"

RespuestasCrearDB(id) ==
    (IF id \in dbs THEN {ClientError("DBInstanceAlreadyExists")} ELSE {Ok})
    \cup Fallos

\* return db_instance_id, and recursos_creados['rds_instance'] = db_instance_id
DevolverDB ==
    /\ recursos_creados' =
          Put(recursos_creados, "rds_instance", NombreDB(config))
    /\ pc' = "resumen"
    /\ UNCHANGED <<entradas, config, faltantes, clientes, sg_id, impresos,
                   stderr, exit_code, excepcion, pc_final, grupos,
                   buckets, instancias, sig_id, historia>>

RdsCreate ==
    /\ pc = "rds_create"
    /\ Llamar("create_db_instance", "")
    /\ \E r \in RespuestasCrearDB(NombreDB(config)) :
          \/ /\ r = Ok
             /\ respuesta' = r
             /\ dbs' = dbs \cup {NombreDB(config)}
             /\ stdout' = stdout \cup {"rds_creada"}
             /\ DevolverDB
          \/ /\ r # Ok
             /\ ManejoRDS(r) = "continuar"
             /\ respuesta' = r
             /\ stdout' = stdout \cup {"rds_existe"}
             /\ DevolverDB
             /\ UNCHANGED dbs
          \/ /\ r # Ok
             /\ ManejoRDS(r) # "continuar"
             /\ FallaPaso(r, ManejoRDS(r), "rds_error")

----------------------------------------------------------------------------
\* The summary of desplegar, then main returns.

Resumen ==
    /\ pc = "resumen"
    /\ stdout' = stdout \cup {"completado", "recordatorios"}
    /\ impresos' = recursos_creados
    /\ exit_code' = "0"
    /\ pc_final' = pc
    /\ pc' = "exit"
    /\ UNCHANGED <<entradas, config, faltantes, clientes, sg_id,
                   recursos_creados, llamadas, stderr, excepcion,
                   respuesta, proveedor, historia>>

\* The operator interrupts the run (Ctrl-C): KeyboardInterrupt is raised in
\* the main thread at whatever position the process is.
Interrupcion ==
    /\ pc # "exit"
    /\ Terminar(KeyboardInterrupt, pc, {})
    /\ UNCHANGED <<entradas, config, faltantes, clientes, sg_id,
                   recursos_creados, impresos, llamadas, respuesta,
                   proveedor, historia>>

Next ==
    \/ ParseArgs
    \/ CargarConfiguracion
    \/ ValidarVariablesEntorno
    \/ CrearClientes
    \/ SgCreate
    \/ SgAuthorize
    \/ SgDescribe
    \/ S3Create
    \/ S3Encryption
    \/ S3Versioning
    \/ S3PublicAccess
    \/ S3Tagging
    \/ Ec2Run
    \/ Ec2Wait
    \/ RdsCreate
    \/ Resumen
    \/ Interrupcion
    \/ NuevaEjecucion

Spec == Init /\ [][Next]_vars

----------------------------------------------------------------------------
\* What the properties below speak of.

Etiquetas == <<"security_group", "s3_bucket", "ec2_instance", "rds_instance">>

\* The entries of recursos_creados of the steps 1..k.
EtiquetasHasta(k) == {Etiquetas[i] : i \in 1..k}

\* The step each provider operation belongs to, in the order security group,
\* bucket, instance, database.
PasoDeOp(op) ==
    CASE op \in {"create_security_group", "authorize_security_group_ingress",
                 "describe_security_groups"} -> 1
      [] op \in {"create_bucket", "put_bucket_encryption",
                 "put_bucket_versioning", "put_public_access_block",
                 "put_bucket_tagging"} -> 2
      [] op \in {"run_instances", "wait_instance_running"} -> 3
      [] op = "create_db_instance" -> 4

Terminado == pc = "exit"

\* The run ended in step k on an exception raised there.
FalloEnPaso(k) ==
    /\ Terminado
    /\ excepcion # Ok
    /\ PasoDe(pc_final) = k

CuatroPasos == DOMAIN recursos_creados = EtiquetasHasta(4)

\* _cargar_configuracion has returned.
Cargada ==
    /\ pc \notin {"parse_args", "cargar_config"}
    /\ ~(Terminado /\ pc_final \in {"parse_args", "cargar_config"})

\* _validar_variables_entorno has run to its end.
Validado ==
    /\ Cargada
    /\ pc # "validar_env"
    /\ ~(Terminado /\ pc_final = "validar_env" /\ excepcion # Ok)

SinDefinir == {v \in Requeridas : environ[v] = "unset"}

Reportadas == {faltantes[i] : i \in 1..Len(faltantes)}

----------------------------------------------------------------------------
\* C1: the calls of a run are grouped by step in the order security group,
\* bucket, instance, database, a step's calls start only once every earlier
\* step has its entry in recursos_creados, and a fault that is no recognised
\* conflict ends the run at once: no call of a later step was made, and
\* recursos_creados holds exactly the entries of the steps before the failing
\* one.
C1_OrdenYCorteEnFallo ==
    /\ \A i \in 1..Len(llamadas) :
          /\ llamadas[i].paso = PasoDeOp(llamadas[i].op)
          /\ EtiquetasHasta(llamadas[i].paso - 1) \subseteq DOMAIN recursos_creados
    /\ Len(llamadas) > 0 => llamadas[1].paso = 1
    /\ \A i \in 1..(Len(llamadas) - 1) :
          llamadas[i + 1].paso \in {llamadas[i].paso, llamadas[i].paso + 1}
    /\ respuesta \in Fallos =>
          /\ Terminado
          /\ excepcion = respuesta
          /\ PasoDe(pc_final) = llamadas[Len(llamadas)].paso
    /\ \A k \in 1..4 :
          FalloEnPaso(k) =>
             /\ \A i \in 1..Len(llamadas) : llamadas[i].paso <= k
             /\ DOMAIN recursos_creados = EtiquetasHasta(k - 1)

C1_Testigo ==
    /\ FalloEnPaso(3)
    /\ respuesta \in Fallos
    /\ pc_final = "ec2_run"
    /\ DOMAIN recursos_creados = {"security_group", "s3_bucket"}

----------------------------------------------------------------------------
----------------------------------------------------------------------------
\* C3: whatever subset of the three required variables is unset, once
\* _validar_variables_entorno has run it has reported every one of them (the
\* list is exactly the variables that are unset or empty), and if the subset
\* is not empty the process has ended there with status 1; with a variable
\* unset no client is ever built and no provider call is ever made.
C3_ValidacionCompleta ==
    /\ (pc # "parse_args" /\ pc_final # "parse_args" /\ SinDefinir # {}) =>
          /\ ~clientes
          /\ llamadas = <<>>
          /\ pc \in {"cargar_config", "validar_env", "exit"}
    /\ Validado =>
          /\ SinDefinir \subseteq Reportadas
          /\ Reportadas = {v \in Requeridas : Falta(environ, v)}
          /\ Len(faltantes) = Cardinality(Reportadas)
    /\ (Validado /\ SinDefinir # {}) =>
          /\ Terminado
          /\ pc_final = "validar_env"
          /\ exit_code = "1"
          /\ "faltan_variables" \in stderr

C3_Testigo ==
    /\ Validado
    /\ SinDefinir = {"AWS_ACCESS_KEY_ID", "AWS_SECRET_ACCESS_KEY"}
    /\ environ["RDS_ADMIN_PASSWORD"] = "definida"
    /\ Len(faltantes) = 2
    /\ exit_code = "1"

----------------------------------------------------------------------------
\* C4: a file holding a record over a subset of the seven valid keys gives
\* the defaults with exactly those keys replaced by the file's values; no
\* path, or a path to no file, gives the defaults; a file with invalid syntax
\* ends the process in _cargar_configuracion with status 1, and no client is
\* built nor any provider call made.
C4_ConfiguracionCombinada ==
    /\ (Cargada /\ args_config # "None" /\ archivo.tipo = "registro"
          /\ DOMAIN archivo.datos \subseteq ClavesValidas) =>
          /\ DOMAIN config = ClavesValidas
          /\ \A k \in DOMAIN archivo.datos : config[k] = archivo.datos[k]
          /\ \A k \in ClavesValidas \ DOMAIN archivo.datos :
                config[k] = config_default[k]
    /\ (Cargada /\ (args_config = "None" \/ archivo.tipo = "ausente")) =>
          config = config_default
    /\ (args_config # "None" /\ archivo.tipo = "invalido") =>
          /\ ~Cargada
          /\ ~clientes
          /\ llamadas = <<>>
          /\ (Terminado /\ pc_final = "cargar_config" /\ excepcion = Ok) =>
                /\ exit_code = "1"
                /\ "config_invalido" \in stderr

C4_Testigo ==
    /\ Cargada
    /\ args_config # "None"
    /\ archivo.tipo = "registro"
    /\ DOMAIN archivo.datos = {"region", "db_allocated_storage"}
    /\ config.region = "eu-west-1"
    /\ config.db_allocated_storage = 50
    /\ config.app_name = "app-rh-devops"

----------------------------------------------------------------------------
\* The create call of this run was answered with InvalidGroup.Duplicate.
DuplicadoVisto ==
    \/ pc = "sg_describe"
    \/ \E i \in 1..Len(llamadas) : llamadas[i].op = "describe_security_groups"

\* The lookup of this run has returned.
BusquedaHecha ==
    /\ \E i \in 1..Len(llamadas) : llamadas[i].op = "describe_security_groups"
    /\ ~(Terminado /\ pc_final = "sg_describe")

\* Over all runs: a name was created at most once, and every identifier
\* crear_security_group returned for it is the one of the group of that name.
UnSoloGrupoPorNombre ==
    /\ \A n \in DOMAIN sg_creaciones :
          /\ sg_creaciones[n] <= 1
          /\ n \in DOMAIN grupos
    /\ \A n \in DOMAIN sg_obtenidos :
          /\ n \in DOMAIN grupos
          /\ sg_obtenidos[n] = {grupos[n].id}

\* A fault of the create call other than the conflict is re-raised: it is
\* never taken for a conflict, it is reported as the step's error and ends
\* the run with no entry for the group.
OtroFalloRelanzado ==
    /\ pc = "sg_describe" => NombreSG(config) \in DOMAIN grupos
    /\ (Terminado /\ pc_final = "sg_create" /\ EsException(excepcion)) =>
          /\ excepcion \in Fallos
          /\ exit_code = "1"
          /\ "security_group" \notin DOMAIN recursos_creados
          /\ excepcion.clase = "ClientError" => "sg_error" \in stderr

\* C5 as stated: after InvalidGroup.Duplicate crear_security_group never
\* raises and returns the existing group's identifier.
C5_Original ==
    /\ DuplicadoVisto => ~(Terminado /\ pc_final = "sg_describe"
                             /\ EsException(excepcion))
    /\ UnSoloGrupoPorNombre
    /\ OtroFalloRelanzado

\* C5, amended: after InvalidGroup.Duplicate crear_security_group looks the
\* group up by '<app_name>-sg' and, unless the lookup call itself faults
\* (that fault is not handled and aborts the deployment), returns the
\* existing group's identifier without reporting an error; over all runs a
\* name is created at most once and every run that gets past step 1 holds
\* the identifier of the group of that name; any other fault of the create
\* call is re-raised.
C5_IdempotenteEnConflicto ==
    /\ BusquedaHecha =>
          /\ "security_group" \in DOMAIN recursos_creados
          /\ recursos_creados["security_group"] = grupos[NombreSG(config)].id
          /\ sg_id = grupos[NombreSG(config)].id
          /\ "sg_existe" \in stdout
          /\ "sg_error" \notin stderr
    /\ (Terminado /\ pc_final = "sg_describe" /\ EsException(excepcion)) =>
          /\ excepcion \in Fallos
          /\ "security_group" \notin DOMAIN recursos_creados
          /\ "error_despliegue" \in stderr
    /\ (Terminado /\ pc_final = "sg_create" /\ EsException(excepcion)) =>
          excepcion.code # "InvalidGroup.Duplicate"
    /\ UnSoloGrupoPorNombre
    /\ OtroFalloRelanzado

C5_Testigo ==
    /\ run = 2
    /\ pc = "s3_create"
    /\ BusquedaHecha
    /\ sg_creaciones[NombreSG(config)] = 1
    /\ recursos_creados["security_group"] = "sg-1"

----------------------------------------------------------------------------
\* The last call of the run was create_db_instance.
UltimaEsCrearDB ==
    /\ Len(llamadas) > 0
    /\ llamadas[Len(llamadas)].op = "create_db_instance"

\* C6: when create_db_instance answers DBInstanceAlreadyExists,
\* crear_base_datos_rds returns '<app_name>-db' with a warning and no error,
\* desplegar records it under 'rds_instance' and the run, unless the operator
\* interrupts the summary, ends as a successful deployment with status 0; any
\* other fault of the call ends the run with status 1 and no such entry.
C6_BaseDeDatosYaExiste ==
    /\ (UltimaEsCrearDB /\ respuesta = ClientError("DBInstanceAlreadyExists")) =>
          /\ pc \in {"resumen", "exit"}
          /\ "rds_instance" \in DOMAIN recursos_creados
          /\ recursos_creados["rds_instance"] = config.app_name \o "-db"
          /\ "rds_existe" \in stdout
          /\ "rds_error" \notin stderr
          /\ "error_despliegue" \notin stderr
          /\ Terminado => pc_final = "resumen"
          /\ (Terminado /\ excepcion # KeyboardInterrupt) =>
                /\ exit_code = "0"
                /\ "completado" \in stdout
                /\ impresos = recursos_creados
    /\ (UltimaEsCrearDB /\ respuesta \in Fallos) =>
          /\ Terminado
          /\ exit_code = "1"
          /\ "rds_instance" \notin DOMAIN recursos_creados
          /\ "error_despliegue" \in stderr
          /\ "completado" \notin stdout
          /\ respuesta.clase = "ClientError" => "rds_error" \in stderr

C6_Testigo ==
    /\ Terminado
    /\ UltimaEsCrearDB
    /\ respuesta = ClientError("DBInstanceAlreadyExists")
    /\ exit_code = "0"
    /\ recursos_creados["rds_instance"] = "app-rh-devops-db"

----------------------------------------------------------------------------
LlamadasS3 == SelectSeq(llamadas, LAMBDA c : c.paso = 2)

OrdenS3 ==
    <<"create_bucket", "put_bucket_encryption", "put_bucket_versioning",
      "put_public_access_block", "put_bucket_tagging">>

PropiedadesBucket ==
    {"creado", "AES256", "versionado", "sin_acceso_publico", "tags"}

\* C7: the create call carries no LocationConstraint when the region is
\* us-east-1 and the configured region otherwise; whatever the region, the
\* calls of the step are a prefix of create, encryption, versioning, public
\* access block, tagging; a fault in any of them is the last call of the run;
\* and the bucket name is returned only after the five calls succeeded.
C7_BucketCincoLlamadas ==
    /\ Len(LlamadasS3) <= Len(OrdenS3)
    /\ \A i \in 1..Len(LlamadasS3) : LlamadasS3[i].op = OrdenS3[i]
    /\ Len(LlamadasS3) > 0 =>
          /\ config.region = "us-east-1" =>
                LlamadasS3[1].loc = "sin_LocationConstraint"
          /\ config.region # "us-east-1" =>
                LlamadasS3[1].loc = config.region
    /\ (PasoDe(pc_final) = 2 /\ Terminado /\ respuesta \in Fallos) =>
          /\ llamadas[Len(llamadas)].paso = 2
          /\ llamadas[Len(llamadas)].op = OrdenS3[Len(LlamadasS3)]
          /\ exit_code = "1"
          /\ "error_despliegue" \in stderr
          /\ "s3_bucket" \notin DOMAIN recursos_creados
    /\ "s3_bucket" \in DOMAIN recursos_creados =>
          /\ Len(LlamadasS3) = 5
          /\ recursos_creados["s3_bucket"] \in DOMAIN buckets
          /\ buckets[recursos_creados["s3_bucket"]] = PropiedadesBucket

C7_Testigo ==
    /\ pc = "ec2_run"
    /\ config.region = "eu-west-1"
    /\ LlamadasS3[1].loc = "eu-west-1"
    /\ "s3_bucket" \in DOMAIN recursos_creados

----------------------------------------------------------------------------
----------------------------------------------------------------------------
\* The provider operations the script issues: none deletes, terminates or
\* revokes.
OpsSinDeshacer ==
    {"create_security_group", "authorize_security_group_ingress",
     "describe_security_groups", "create_bucket", "put_bucket_encryption",
     "put_bucket_versioning", "put_public_access_block", "put_bucket_tagging",
     "run_instances", "wait_instance_running", "create_db_instance"}

\* C9: no step of any run removes a resource or takes anything away from one,
\* no call other than the create, configure and lookup calls is issued, and
\* the step in which a run ends on an exception leaves every resource of the
\* provider as it was.
C9_SinRollback ==
    [][/\ \A n \in DOMAIN grupos :
             /\ n \in DOMAIN grupos'
             /\ grupos'[n].id = grupos[n].id
             /\ grupos[n].reglas \subseteq grupos'[n].reglas
       /\ \A b \in DOMAIN buckets :
             /\ b \in DOMAIN buckets'
             /\ buckets[b] \subseteq buckets'[b]
       /\ \A i \in DOMAIN instancias :
             /\ i \in DOMAIN instancias'
             /\ instancias'[i] = instancias[i]
       /\ dbs \subseteq dbs'
       /\ \A i \in 1..Len(llamadas') : llamadas'[i].op \in OpsSinDeshacer
       /\ (pc # "exit" /\ pc' = "exit" /\ excepcion' # Ok) =>
             /\ grupos' = grupos
             /\ buckets' = buckets
             /\ instancias' = instancias
             /\ dbs' = dbs
             /\ Len(llamadas') <= Len(llamadas) + 1]_vars

C9_Testigo ==
    /\ FalloEnPaso(3)
    /\ EsException(excepcion)
    /\ pc_final = "ec2_wait"
    /\ NombreSG(config) \in DOMAIN grupos
    /\ recursos_creados["security_group"] = grupos[NombreSG(config)].id
    /\ buckets[recursos_creados["s3_bucket"]] = PropiedadesBucket
    /\ DOMAIN instancias # {}

----------------------------------------------------------------------------
\* The group named '<app_name>-sg' has identifier id and carries both rules.
GrupoConReglas(id) ==
    /\ NombreSG(config) \in DOMAIN grupos
    /\ grupos[NombreSG(config)].id = id
    /\ ReglasIngreso \subseteq grupos[NombreSG(config)].reglas

\* C10: whenever crear_security_group has returned an identifier, the group
\* '<app_name>-sg' with that identifier exists and carries the inbound rules
\* for TCP 443 and TCP 22, and so does the group handed to
\* crear_instancia_ec2.
C10_GrupoDevueltoConReglas ==
    /\ "security_group" \in DOMAIN recursos_creados =>
          GrupoConReglas(recursos_creados["security_group"])
    /\ pc \in PcsPaso3 => GrupoConReglas(sg_id)
    /\ \A i \in DOMAIN instancias :
          \E n \in DOMAIN grupos :
             /\ grupos[n].id = instancias[i].sg
             /\ ReglasIngreso \subseteq grupos[n].reglas

====
